---------------------------- MODULE Spec2Model ----------------------------
(***************************************************************************)
(* Model of ai-code-reviewer: the static analyzer                         *)
(* (src/src/ml_analyzer.py) and the loop of src/src/main.py that calls it  *)
(* on one shared instance (Spec); the performance pass line by line        *)
(* (SpecScan); the /webhook handler with run_ai_review and the GitHub      *)
(* client (SpecReview); LLMExplainer.generate_review on its own            *)
(* (SpecExplain).                                                          *)
(*                                                                         *)
(* A source text is a sequence of tokens: the newline character NL or a    *)
(* whole line taken from a fixed alphabet of concrete Python lines.  The   *)
(* regular expressions of the analyzer are modelled by their match sets    *)
(* over that alphabet, ast.parse by a parser for the block structure the   *)
(* alphabet can build.  Scores are integers: base_score in thousandths,    *)
(* the returned quality_score in tenths.                                   *)
(***************************************************************************)
EXTENDS Integers, Sequences, FiniteSets, TLC

VARIABLES
    pc,        \* where the current analyze call stands (ml_analyzer.py:25-49)
    code,      \* the text handed to analyze: file["code"] (main.py:153)
    filename,  \* the name handed to analyze: file["filename"] (main.py:153)
    issues,    \* the list analyze collects the findings in (ml_analyzer.py:30-36)
    passes,    \* the passes the current call has run, in order
    result,    \* <<the dict analyze returned>>, <<>> while there is none
    earlier,   \* <<an outcome the caller kept>> (main.py:154), <<>> while none
    added,     \* the number of the line `code` adds to the kept text, else 0
    in_loop,   \* the flag of _check_performance_issues (ml_analyzer.py:207)
    scan_k,    \* the lines its loop has been through (ml_analyzer.py:210)
    WEBHOOK_SECRET,   \* os.getenv("WEBHOOK_SECRET", "") (main.py:19)
    request,          \* the delivery POST /webhook is handling (main.py:48-52)
    hpc,              \* where github_webhook stands (main.py:57-91)
    response,         \* what the delivery was answered with, "" while unanswered
    reviews,          \* the run_ai_review calls the delivery has made (main.py:79)
    rpc,              \* where run_ai_review stands (main.py:138-171)
    files,            \* what get_pr_files returned (main.py:140)
    analysis_results, \* the list run_ai_review fills and generate_review reads
    review_comment,   \* <<what generate_review returned>> (main.py:159)
    posted,           \* the comments create_issue_comment was given (github_client.py:57)
    trace,            \* the calls run_ai_review has made, in order
    exc,              \* the exception in flight, "" when there is none
    GROQ_API_KEY,     \* os.getenv("GROQ_API_KEY") (llm_explainer.py:17)
    client,           \* LLMExplainer.client (llm_explainer.py:13, 20)
    gpc,              \* where generate_review stands (llm_explainer.py:24-163)
    locals,           \* the local names generate_review has bound (llm_explainer.py:27-30)
    report,           \* <<the string generate_review returned>>
    llm_calls         \* the chat.completions.create calls of this generate_review

\* the variables of the one analyze call
analyzerVars == <<pc, code, filename, issues, passes, result, earlier, added>>

\* the variables of the line-by-line run of the performance pass
scanVars == <<in_loop, scan_k>>

\* the variables of the /webhook handler
hookVars == <<WEBHOOK_SECRET, request, hpc, response, reviews>>

\* the variables of run_ai_review
reviewVars == <<rpc, files, analysis_results, review_comment, posted, trace>>

\* the variables of the LLM explainer
explainVars == <<GROQ_API_KEY, client, gpc, locals, report, llm_calls>>

\* what the steps of analyze leave alone
outside == <<scanVars, hookVars, reviewVars, exc, explainVars>>

vars == <<analyzerVars, outside>>

---------------------------------------------------------------------------
(* Bounds of the model.                                                    *)

\* longest text, in tokens, handed to the first analyze call
MaxTokens == 5

\* longest text, in tokens, of a call that is remembered and re-analyzed
MaxSeenTokens == 3

\* most files a pull request has, and longest list generate_review is handed
MaxFiles == 2

---------------------------------------------------------------------------
(* The alphabet of lines.                                                  *)

NL == "\n"

LinePassword == "password = 'admin123'"
LineSecrets  == "api_key = 'abcdefghij0123456789'; db.execute('%s' % eval(s))  # TODO"
LineLongPrint == "print('aaaaaaaaaaaaaaaaaaaaaaaaaaaaaaaaaaaaaaaaaaaaaaaaaaaaaaaaaaaaaaaaaaaaaaaaaaaaaaaaaaaaaaaaaaaaaaaaaaaaaaaaaaaaaaaaaaaaaaaaaaaaaaaaaa')"
LineDefHeader == "def f(a=[]):"
LineDocTodo  == "    'doc'  # TODO"
LineNestedDef == "    def n(): pass"
LineDefNum   == "def g(): 42"
LineFor      == "for r in rows: pass"
LineConcatGet == "t += 's' + db.get(k)"
LineEqNone   == "    x == None"
\* the string literal holds the lone surrogate code point U+D800
LineSurrogate == "s = '<U+D800>'"
LineAsyncDef == "async def k(): pass"
LineDef      == "def m(): pass"
LineExcept   == "except:"

Lines == {LinePassword, LineSecrets, LineLongPrint, LineDefHeader, LineDocTodo,
          LineNestedDef, LineDefNum, LineFor, LineConcatGet, LineEqNone,
          LineSurrogate, LineAsyncDef, LineDef, LineExcept}

Names == {"a.py", "b.py"}

Tokens == Lines \cup {NL}

\* a text never holds two lines without a newline between them
WellFormed(c) == \A i \in 1..(Len(c) - 1) : c[i] = NL \/ c[i + 1] = NL

RECURSIVE CodesOfLen(_)
CodesOfLen(n) ==
    IF n = 0 THEN {<<>>}
    ELSE {c \in {Append(b, t) : b \in CodesOfLen(n - 1), t \in Tokens} :
             WellFormed(c)}

Codes(n) == UNION {CodesOfLen(k) : k \in 0..n}

(* The lines of the texts the performance pass is followed through line by *)
(* line: a loop header, a loop header with a data access and an append in  *)
(* its body, an append, a data access, both in one line, and neither.      *)

LineForQuery == "for r in db.query(q): t += 's'"
LineConcat   == "t += 's'"
LineQuery    == "u = db.find(k)"

ScanLines == {LineFor, LineForQuery, LineConcat, LineQuery, LineConcatGet,
              LinePassword}

RECURSIVE ScanCodesOfLen(_)
ScanCodesOfLen(n) ==
    IF n = 0 THEN {<<>>}
    ELSE {c \in {Append(b, t) : b \in ScanCodesOfLen(n - 1),
                                t \in ScanLines \cup {NL}} :
             WellFormed(c)}

ScanCodes(n) == UNION {ScanCodesOfLen(k) : k \in 0..n}

---------------------------------------------------------------------------
(* code.split("\n")                                                        *)

RECURSIVE Split(_)
Split(c) ==
    IF c = <<>> THEN <<"">>
    ELSE IF Head(c) = NL THEN <<"">> \o Split(Tail(c))
    ELSE IF Len(c) = 1 THEN <<Head(c)>>
    ELSE <<Head(c)>> \o Split(Tail(Tail(c)))

---------------------------------------------------------------------------
(* The regular expressions, as the sets of alphabet lines re.search finds  *)
(* a match in.                                                             *)

\* r'password\s*=\s*["\'](.+)["\']', re.IGNORECASE
RePassword(line) == line \in {LinePassword}

\* r'execute\s*\(\s*["\'].*%s.*["\']'
ReSqlFormat(line) == line \in {LineSecrets}

\* r'api_key\s*=\s*["\'][a-zA-Z0-9]{20,}["\']', re.IGNORECASE
ReApiKey(line) == line \in {LineSecrets}

\* r'\beval\s*\('
ReEval(line) == line \in {LineSecrets}

\* r'^\s*print\s*\('
RePrint(line) == line \in {LineLongPrint}

\* r'#\s*(TODO|FIXME|HACK|XXX)', re.IGNORECASE
ReTodo(line) == line \in {LineSecrets, LineDocTodo}

\* r'except\s*:'
ReBareExcept(line) == line \in {LineExcept}

\* r'def\s+\w+\s*\(.*=\s*(\[\]|\{\})'
ReMutableDefault(line) == line \in {LineDefHeader}

\* r'==\s*None'
ReEqNone(line) == line \in {LineEqNone}

\* r'^\s*(for|while)\s+'
ReLoopHeader(line) == line \in {LineFor, LineForQuery}

\* r'\.(find|query|execute|select|get)\s*\('
ReQuery(line) == line \in {LineSecrets, LineConcatGet, LineForQuery, LineQuery}

\* r'\+=\s*["\']'
ReConcat(line) == line \in {LineConcatGet, LineForQuery, LineConcat}

\* the line length above which a line is reported
MaxLineLength == 120

---------------------------------------------------------------------------
(* CodeIssue; description and suggestion are fixed by the other fields.    *)

CodeIssue(sev, type, i) ==
    [severity |-> sev, issue_type |-> type, line_number |-> i]

If(cond, issue) == IF cond THEN <<issue>> ELSE <<>>

\* enumerate(lines) without its start argument
LineNoFromZero(k) == k

\* the number enumerate(lines, 1) gives the line at 0-based offset k
LineNo(k) == k + 1

---------------------------------------------------------------------------
(* CHECK 1: security issues                                                *)

\* a rule that tags its finding with a severity outside the three
SecurityAtHigh(line, i) ==
       If(RePassword(line),  CodeIssue("HIGH", "Hardcoded Password", i))
    \o If(ReSqlFormat(line), CodeIssue("CRITICAL", "SQL Injection Risk", i))
    \o If(ReApiKey(line),    CodeIssue("CRITICAL", "Exposed API Key", i))
    \o If(ReEval(line),      CodeIssue("CRITICAL", "Dangerous eval() Usage", i))

SecurityAt(line, i) ==
       If(RePassword(line),  CodeIssue("CRITICAL", "Hardcoded Password", i))
    \o If(ReSqlFormat(line), CodeIssue("CRITICAL", "SQL Injection Risk", i))
    \o If(ReApiKey(line),    CodeIssue("CRITICAL", "Exposed API Key", i))
    \o If(ReEval(line),      CodeIssue("CRITICAL", "Dangerous eval() Usage", i))

\* the scan returning at the first line that has a finding
RECURSIVE SecurityScanFirstHit(_, _)
SecurityScanFirstHit(lines, k) ==
    IF k >= Len(lines) THEN <<>>
    ELSE IF SecurityAt(lines[k + 1], LineNo(k)) # <<>>
    THEN SecurityAt(lines[k + 1], LineNo(k))
    ELSE SecurityScanFirstHit(lines, k + 1)

RECURSIVE SecurityScan(_, _)
SecurityScan(lines, k) ==
    IF k >= Len(lines) THEN <<>>
    ELSE SecurityAt(lines[k + 1], LineNo(k)) \o SecurityScan(lines, k + 1)

_check_security_issues(c) == SecurityScan(Split(c), 0)

---------------------------------------------------------------------------
(* CHECK 3: Python best practices                                          *)

PracticesAt(line, i) ==
       If(ReBareExcept(line),     CodeIssue("WARNING", "Bare Except Clause", i))
    \o If(ReMutableDefault(line), CodeIssue("WARNING", "Mutable Default Argument", i))
    \o If(ReEqNone(line),         CodeIssue("INFO", "Incorrect None Comparison", i))

RECURSIVE PracticesScan(_, _)
PracticesScan(lines, k) ==
    IF k >= Len(lines) THEN <<>>
    ELSE PracticesAt(lines[k + 1], LineNo(k)) \o PracticesScan(lines, k + 1)

_check_python_best_practices(c) == PracticesScan(Split(c), 0)

---------------------------------------------------------------------------
(* CHECK 4: performance issues                                             *)

PerformanceAt(line, i, inside) ==
       If(inside /\ ReQuery(line),  CodeIssue("WARNING", "Database Query in Loop", i))
    \o If(inside /\ ReConcat(line), CodeIssue("INFO", "String Concat in Loop", i))

\* the flag holds only while the lines are loop headers
InLoopOnHeaderOnly(line, inside) == ReLoopHeader(line)

\* in_loop once the line has been looked at: a loop header sets it, nothing
\* clears it
InLoopAfter(line, inside) == IF ReLoopHeader(line) THEN TRUE ELSE inside

RECURSIVE PerformanceScan(_, _, _)
PerformanceScan(lines, k, inside) ==
    IF k >= Len(lines) THEN <<>>
    ELSE LET line == lines[k + 1]
             flag == InLoopAfter(line, inside)
         IN  PerformanceAt(line, LineNo(k), flag)
             \o PerformanceScan(lines, k + 1, flag)

_check_performance_issues(c) == PerformanceScan(Split(c), 0, FALSE)

---------------------------------------------------------------------------
(* ast.parse, on the texts the alphabet can build.  A line is a blank, a   *)
(* simple statement at column 0 or 4, the header of a function whose body  *)
(* is the indented block that follows, or a line no grammar rule accepts   *)
(* where it stands.  node.lineno is the index of the line in the text.     *)

Indent(line) == IF line \in {LineDocTodo, LineNestedDef, LineEqNone} THEN 4 ELSE 0

IsBlank(line) == line = ""

\* str.encode("utf-8") of the source succeeds
Encodable(line) == line # LineSurrogate

AstNode(type, value, const, i, body) ==
    [type |-> type, value |-> value, const |-> const, lineno |-> i, body |-> body]

Leaf(type, i) == AstNode(type, "", "", i, <<>>)

\* the statements of a line that is not a block header
SimpleStmts(line, i) ==
    CASE line = LinePassword  -> <<Leaf("Assign", i)>>
      [] line = LineSecrets   -> <<Leaf("Assign", i), AstNode("Expr", "Call", "", i, <<>>)>>
      [] line = LineLongPrint -> <<AstNode("Expr", "Call", "", i, <<>>)>>
      [] line = LineDocTodo   -> <<AstNode("Expr", "Constant", "str", i, <<>>)>>
      [] line = LineNestedDef -> <<AstNode("FunctionDef", "", "", i, <<Leaf("Pass", i)>>)>>
      [] line = LineDefNum    ->
            <<AstNode("FunctionDef", "", "", i,
                      <<AstNode("Expr", "Constant", "int", i, <<>>)>>)>>
      [] line = LineFor       -> <<AstNode("For", "", "", i, <<Leaf("Pass", i)>>)>>
      [] line = LineConcatGet -> <<Leaf("AugAssign", i)>>
      [] line = LineEqNone    -> <<AstNode("Expr", "Compare", "", i, <<>>)>>
      [] line = LineAsyncDef  -> <<AstNode("AsyncFunctionDef", "", "", i, <<Leaf("Pass", i)>>)>>
      [] line = LineDef       -> <<AstNode("FunctionDef", "", "", i, <<Leaf("Pass", i)>>)>>
      [] OTHER                -> <<>>

ParseError(name) == [error |-> name, body |-> <<>>]

\* the indented block that starts at line i: its statements and the line after it
RECURSIVE ParseBlock(_, _)
ParseBlock(lines, i) ==
    IF i > Len(lines) THEN [next |-> i, body |-> <<>>]
    ELSE IF IsBlank(lines[i]) THEN ParseBlock(lines, i + 1)
    ELSE IF Indent(lines[i]) = 0 THEN [next |-> i, body |-> <<>>]
    ELSE LET r == ParseBlock(lines, i + 1)
         IN  [next |-> r.next, body |-> SimpleStmts(lines[i], i) \o r.body]

RECURSIVE ParseModule(_, _)
ParseModule(lines, i) ==
    IF i > Len(lines) THEN [error |-> "", body |-> <<>>]
    ELSE LET line == lines[i] IN
         IF IsBlank(line) THEN ParseModule(lines, i + 1)
         ELSE IF Indent(line) > 0 THEN ParseError("IndentationError")
         ELSE IF line = LineExcept THEN ParseError("SyntaxError")
         ELSE IF line = LineDefHeader THEN
             LET blk == ParseBlock(lines, i + 1) IN
             IF blk.body = <<>> THEN ParseError("IndentationError")
             ELSE LET rest == ParseModule(lines, blk.next) IN
                  IF rest.error # "" THEN rest
                  ELSE [error |-> "",
                        body |-> <<AstNode("FunctionDef", "", "", i, blk.body)>>
                                 \o rest.body]
         ELSE LET rest == ParseModule(lines, i + 1) IN
              IF rest.error # "" THEN rest
              ELSE [error |-> "", body |-> SimpleStmts(line, i) \o rest.body]

ast_parse(c) ==
    LET lines == Split(c) IN
    IF \E i \in 1..Len(lines) : ~Encodable(lines[i])
    THEN ParseError("UnicodeEncodeError")
    ELSE ParseModule(lines, 1)

\* ast.walk: breadth first, a node before its children, children in order
RECURSIVE WalkQueue(_)
WalkQueue(todo) ==
    IF todo = <<>> THEN <<>>
    ELSE <<Head(todo)>> \o WalkQueue(Tail(todo) \o Head(todo).body)

ast_walk(tree) == WalkQueue(tree.body)

\* the exceptions `except SyntaxError` catches
IsSyntaxError(error) == error \in {"SyntaxError", "IndentationError"}

---------------------------------------------------------------------------
(* CHECK 2: code quality issues                                            *)

QualityAt(line, i) ==
       If(Len(line) > MaxLineLength, CodeIssue("INFO", "Long Line", i))
    \o If(RePrint(line),             CodeIssue("INFO", "Print Statement Found", i))
    \o If(ReTodo(line),              CodeIssue("WARNING", "Unresolved TODO", i))

RECURSIVE QualityScan(_, _)
QualityScan(lines, k) ==
    IF k >= Len(lines) THEN <<>>
    ELSE QualityAt(lines[k + 1], LineNo(k)) \o QualityScan(lines, k + 1)

\* node.body and isinstance(node.body[0], ast.Expr)
\*           and isinstance(node.body[0].value, ast.Constant)
HasDocstring(node) ==
    /\ node.body # <<>>
    /\ node.body[1].type = "Expr"
    /\ node.body[1].value = "Constant"

\* isinstance(node, ast.FunctionDef)
IsFunctionDef(node) == node.type = "FunctionDef"

RECURSIVE DocstringScan(_)
DocstringScan(nodes) ==
    IF nodes = <<>> THEN <<>>
    ELSE LET node == Head(nodes) IN
         If(IsFunctionDef(node) /\ ~HasDocstring(node),
            CodeIssue("INFO", "Missing Docstring", node.lineno))
         \o DocstringScan(Tail(nodes))

\* the syntax tree walked before the lines are scanned
CheckCodeQualityTreeFirst(c) ==
    LET found == QualityScan(Split(c), 0)
        tree  == ast_parse(c)
    IN  IF tree.error = ""
        THEN [raised |-> "", issues |-> DocstringScan(ast_walk(tree)) \o found]
        ELSE IF IsSyntaxError(tree.error)
        THEN [raised |-> "", issues |-> found]
        ELSE [raised |-> tree.error, issues |-> <<>>]

\* raised: the exception that leaves the function, "" when it returns
_check_code_quality(c) ==
    LET found == QualityScan(Split(c), 0)
        tree  == ast_parse(c)
    IN  IF tree.error = ""
        THEN [raised |-> "", issues |-> found \o DocstringScan(ast_walk(tree))]
        ELSE IF IsSyntaxError(tree.error)
        THEN [raised |-> "", issues |-> found]
        ELSE [raised |-> tree.error, issues |-> <<>>]

---------------------------------------------------------------------------
(* The quality score.  base_score is held in thousandths, the result of    *)
(* round(base_score, 1) in tenths.                                         *)

BaseScore == 10000

CriticalPenalty == 2000

WarningPenalty == 1000

InfoPenalty == 300

\* INFO findings deducted like warnings
PenaltyInfoAsWarning(severity) ==
    IF severity = "CRITICAL" THEN CriticalPenalty ELSE WarningPenalty

Penalty(severity) ==
    IF severity = "CRITICAL" THEN CriticalPenalty
    ELSE IF severity = "WARNING" THEN WarningPenalty
    ELSE IF severity = "INFO" THEN InfoPenalty
    ELSE 0

RECURSIVE Deduct(_, _)
Deduct(found, base_score) ==
    IF found = <<>> THEN base_score
    ELSE Deduct(Tail(found), base_score - Penalty(Head(found).severity))

\* round(x, 1): the nearest tenth, a tie to the even one
Round1(x) ==
    LET q == x \div 100
        r == x % 100
    IN  IF r < 50 THEN q
        ELSE IF r > 50 THEN q + 1
        ELSE IF q % 2 = 0 THEN q ELSE q + 1

Max(a, b) == IF b > a THEN b ELSE a

\* the floor of the score forgotten
ScoreUnclamped(found) == Round1(Deduct(found, BaseScore))

_calculate_score(found) == Max(0, Round1(Deduct(found, BaseScore)))

BySeverity(found, severity) == SelectSeq(found, LAMBDA i : i.severity = severity)

\* the dict analyze returns
AnalysisResult(name, found) ==
    [filename      |-> name,
     quality_score |-> _calculate_score(found),
     total_issues  |-> Len(found),
     critical      |-> BySeverity(found, "CRITICAL"),
     warnings      |-> BySeverity(found, "WARNING"),
     info          |-> BySeverity(found, "INFO"),
     issues        |-> found]

\* what one analyze call gives its caller: the exception that leaves it, or
\* the dict built from the findings of the four passes in their order
Analyzed(c, name) ==
    LET quality == _check_code_quality(c) IN
    [raised |-> quality.raised,
     result |-> AnalysisResult(name,
                       _check_security_issues(c)
                    \o quality.issues
                    \o _check_python_best_practices(c)
                    \o _check_performance_issues(c))]

---------------------------------------------------------------------------
(* The texts of successive files: a remembered text again, or with one     *)
(* more line.                                                              *)

InsertAt(lines, p, line) ==
    SubSeq(lines, 1, p - 1) \o <<line>> \o SubSeq(lines, p, Len(lines))

\* "\n".join(lines)
RECURSIVE Join(_)
Join(lines) ==
    LET first == IF Head(lines) = "" THEN <<>> ELSE <<Head(lines)>> IN
    IF Len(lines) = 1 THEN first
    ELSE first \o <<NL>> \o Join(Tail(lines))

\* at: the number of the added line in the new text, 0 when none was added
Related(c) ==
    {[code |-> c, at |-> 0]}
    \cup {[code |-> Join(InsertAt(Split(c), p, line)), at |-> p] :
            p \in 1..(Len(Split(c)) + 1), line \in Lines}

---------------------------------------------------------------------------
(* The state machine: one analyze call at a time on the shared analyzer.   *)

\* one list shared by the calls: it still holds what an earlier call found
CarriedIssues ==
    IF earlier # <<>> /\ earlier[1].result # <<>>
    THEN earlier[1].result[1].issues
    ELSE <<>>

\* issues = []
EmptyIssues == <<>>

---------------------------------------------------------------------------
(* The deliveries POST /webhook receives.  The raw body is identified with *)
(* the payload it holds.  HMAC-SHA256 is taken to be free of collisions:   *)
(* a digest is the pair of the key and the body it was computed from, so   *)
(* two digests are equal exactly when both are.                            *)

\* values of the WEBHOOK_SECRET environment variable; "" when it is unset
Secrets == {"", "k1"}

\* the keys a sender may sign with
Keys == {"", "k1", "k2"}

\* values of the X-GitHub-Event header
Events == {"pull_request", "installation", "push"}

\* values of payload["action"]; "" when the payload has no such key
Actions == {"opened", "synchronize", "closed", "created", "deleted", ""}

\* json: the body parses as JSON; complete: it carries the keys the handler
\* subscripts (number, repository.full_name, installation.id,
\* installation.account.login)
Payloads ==
    {p \in [json : BOOLEAN, action : Actions, complete : BOOLEAN] :
        p.json \/ (p.action = "" /\ ~p.complete)}

\* a body of some other delivery
Replayed == [json |-> TRUE, action |-> "replayed", complete |-> TRUE]

\* hmac.new(key, body, hashlib.sha256).hexdigest()
HmacSha256(key, body) == [key |-> key, body |-> body]

\* "sha256=" + digest
Sha256Header(digest) == [kind |-> "sha256", digest |-> digest]

\* the header is absent: x_hub_signature_256 is None
NoSignature == [kind |-> "none", digest |-> HmacSha256("", Replayed)]

\* the header is there and empty
EmptySignature == [kind |-> "empty", digest |-> HmacSha256("", Replayed)]

\* the header holds a character outside ASCII
NonAsciiSignature == [kind |-> "nonascii", digest |-> HmacSha256("", Replayed)]

\* the headers a sender may put on body p: none, an empty one, one outside
\* ASCII, the digest of p under some key, the digest of another body under
\* the key "k1"
Signatures(p) ==
    {NoSignature, EmptySignature, NonAsciiSignature}
    \cup {Sha256Header(HmacSha256(k, p)) : k \in Keys}
    \cup {Sha256Header(HmacSha256("k1", Replayed))}

Requests ==
    UNION {{[event |-> e, payload |-> p, signature |-> s] :
              e \in Events, s \in Signatures(p)} : p \in Payloads}

\* signature or ""
OrEmpty(signature) == IF signature.kind = "none" THEN EmptySignature ELSE signature

\* hmac.compare_digest(a, b) on two str: TypeError unless both are ASCII
compare_digest(a, b) ==
    IF b.kind = "nonascii" THEN "TypeError"
    ELSE IF a = b THEN "True"
    ELSE "False"

verify_webhook_signature(payload, signature) ==
    IF WEBHOOK_SECRET = ""
    THEN "True"
    ELSE compare_digest(Sha256Header(HmacSha256(WEBHOOK_SECRET, payload)),
                        OrEmpty(signature))

\* a review is started for a closed pull request too
ReviewActionsWithClosed == {"opened", "synchronize", "closed"}

\* if action in ["opened", "synchronize"]
ReviewActions == {"opened", "synchronize"}

---------------------------------------------------------------------------
(* What run_ai_review works on.                                            *)

\* the texts of the fetched files: one with a CRITICAL finding, one that
\* analyze raises on, one with an INFO finding, one without findings
ReviewCodes == {<<LinePassword>>, <<LineSurrogate>>, <<LineDef>>, <<LineFor>>}

\* the files of a pull request as pr.get_files() lists them; an empty patch
\* stands for a file GitHub gives no patch for
PullRequestFiles == [filename : Names \cup {"README.md"},
                     patch : ReviewCodes \cup {<<>>}]

PullRequests(n) == UNION {[1..k -> PullRequestFiles] : k \in 0..n}

\* file.filename.endswith(".py"), on the names above
EndsWithPy(name) == name \in {"a.py", "b.py"}

\* the loop of get_pr_files: the Python files that have a patch
RECURSIVE PythonFiles(_)
PythonFiles(listed) ==
    IF listed = <<>> THEN <<>>
    ELSE LET file == Head(listed) IN
         (IF EndsWithPy(file.filename) /\ file.patch # <<>>
          THEN <<[filename |-> file.filename, code |-> file.patch]>>
          ELSE <<>>)
         \o PythonFiles(Tail(listed))

\* the dicts get_pr_files can return
Files == [filename : Names, code : ReviewCodes]

\* the classes of the exceptions the steps raise; all derive from Exception
ExceptionClasses ==
    {"GithubException", "UnicodeEncodeError", "KeyError", "ZeroDivisionError",
     "ValueError", "APIError", "UnboundLocalError"}

\* only the failures of the GitHub calls are caught
ExceptGithubOnly(e) == e = "GithubException"

\* except Exception as e
ExceptException(e) == e \in ExceptionClasses

---------------------------------------------------------------------------
(* What generate_review works on.                                          *)

\* values of the GROQ_API_KEY environment variable; "" when it is unset
ApiKeys == {"", "gsk"}

\* a dict without the keys generate_review reads
NoCounts == [filename |-> "a.py"]

\* the dicts analyze returns for the texts of the fetched files
Analyses ==
    {Analyzed(f.code, f.filename).result :
        f \in {g \in Files : Analyzed(g.code, g.filename).raised = ""}}

\* the lists generate_review may be handed
ResultLists(n) == UNION {[1..k -> Analyses \cup {NoCounts}] : k \in 0..n}

\* r["critical"], r["warnings"], r["info"], r["quality_score"] exist
HasCounts(r) ==
    {"critical", "warnings", "info", "quality_score"} \subseteq DOMAIN r

\* sum(len(r[key]) for r in analysis_results)
RECURSIVE TotalOf(_, _)
TotalOf(results, key) ==
    IF results = <<>> THEN 0
    ELSE Len(Head(results)[key]) + TotalOf(Tail(results), key)

\* sum(r["quality_score"] for r in analysis_results), in tenths
RECURSIVE ScoreSum(_)
ScoreSum(results) ==
    IF results = <<>> THEN 0
    ELSE Head(results).quality_score + ScoreSum(Tail(results))

\* the quotient sum / len, kept as its two terms
Mean(sum, count) == [sum |-> sum, count |-> count]

\* the names lines 27-30 bind when none of them raises
Totals(results) ==
    [total_critical |-> TotalOf(results, "critical"),
     total_warnings |-> TotalOf(results, "warnings"),
     total_info     |-> TotalOf(results, "info"),
     overall_score  |-> Mean(ScoreSum(results), Len(results))]

\* the names bound when line 30 divides by zero
TotalsWithoutScore(results) ==
    [total_critical |-> TotalOf(results, "critical"),
     total_warnings |-> TotalOf(results, "warnings"),
     total_info     |-> TotalOf(results, "info")]

FileNames(results) == [n \in 1..Len(results) |-> results[n].filename]

\* the report strings, by what they are built from
CleanReport(bound, results) ==
    [kind |-> "clean", overall_score |-> bound.overall_score,
     counts |-> <<>>, filenames |-> FileNames(results)]

FinalComment(bound, results) ==
    [kind |-> "full", overall_score |-> bound.overall_score,
     counts |-> <<bound.total_critical, bound.total_warnings, bound.total_info>>,
     filenames |-> FileNames(results)]

FallbackComment(bound) ==
    [kind |-> "fallback", overall_score |-> bound.overall_score,
     counts |-> <<bound.total_critical, bound.total_warnings>>,
     filenames |-> <<>>]

\* the names the fallback string reads
FallbackReads == {"overall_score", "total_critical", "total_warnings"}

---------------------------------------------------------------------------
(* The components at rest.                                                 *)

HookIdle ==
    /\ WEBHOOK_SECRET = ""
    /\ request = [event |-> "", payload |-> Replayed, signature |-> NoSignature]
    /\ hpc = "idle"
    /\ response = ""
    /\ reviews = 0

ReviewIdle ==
    /\ rpc = "idle"
    /\ files = <<>>
    /\ analysis_results = <<>>
    /\ review_comment = <<>>
    /\ posted = <<>>
    /\ trace = <<>>

\* self.client = None
ExplainIdle ==
    /\ client = "None"
    /\ gpc = "idle"
    /\ locals = <<>>
    /\ report = <<>>
    /\ llm_calls = 0

ServiceIdle ==
    /\ HookIdle
    /\ ReviewIdle
    /\ exc = ""
    /\ GROQ_API_KEY = ""
    /\ ExplainIdle

\* no analyze call is being followed step by step
AnalyzerIdle ==
    /\ pc = "idle"
    /\ code = <<>>
    /\ filename = "a.py"
    /\ issues = <<>>
    /\ passes = <<>>
    /\ result = <<>>
    /\ earlier = <<>>
    /\ added = 0

\* the performance pass is not being followed line by line
ScanIdle ==
    /\ in_loop = FALSE
    /\ scan_k = 0

Init ==
    /\ pc = "idle"
    /\ code \in Codes(MaxTokens)
    /\ filename \in Names
    /\ issues = <<>>
    /\ passes = <<>>
    /\ result = <<>>
    /\ earlier = <<>>
    /\ added = 0
    /\ ScanIdle
    /\ ServiceIdle

\* ml_analyzer.analyze(file["code"], file["filename"]) is entered
analyze ==
    /\ pc = "idle"
    /\ issues' = EmptyIssues
    /\ passes' = <<>>
    /\ pc' = "security"
    /\ UNCHANGED <<code, filename, result, earlier, added, outside>>

SecurityPass ==
    /\ pc = "security"
    /\ issues' = issues \o _check_security_issues(code)
    /\ passes' = Append(passes, "security")
    /\ pc' = "quality"
    /\ UNCHANGED <<code, filename, result, earlier, added, outside>>

\* an exception of the pass leaves analyze: nothing catches it there
QualityPass ==
    /\ pc = "quality"
    /\ LET r == _check_code_quality(code) IN
       IF r.raised # ""
       THEN /\ pc' = "raised"
            /\ issues' = <<>>
       ELSE /\ pc' = "practices"
            /\ issues' = issues \o r.issues
    /\ passes' = Append(passes, "quality")
    /\ UNCHANGED <<code, filename, result, earlier, added, outside>>

PracticesPass ==
    /\ pc = "practices"
    /\ issues' = issues \o _check_python_best_practices(code)
    /\ passes' = Append(passes, "practices")
    /\ pc' = "performance"
    /\ UNCHANGED <<code, filename, result, earlier, added, outside>>

PerformancePass ==
    /\ pc = "performance"
    /\ issues' = issues \o _check_performance_issues(code)
    /\ passes' = Append(passes, "performance")
    /\ pc' = "score"
    /\ UNCHANGED <<code, filename, result, earlier, added, outside>>

Return ==
    /\ pc = "score"
    /\ result' = <<AnalysisResult(filename, issues)>>
    /\ pc' = "returned"
    /\ UNCHANGED <<code, filename, issues, passes, earlier, added, outside>>

Finished == pc \in {"returned", "raised"}

\* what the call that just ended gave its caller
Outcome == [code |-> code, filename |-> filename, pc |-> pc, result |-> result]

NextCall(r, name) ==
    /\ code' = r.code
    /\ added' = r.at
    /\ filename' = name
    /\ pc' = "idle"
    /\ issues' = <<>>
    /\ passes' = <<>>
    /\ result' = <<>>
    /\ UNCHANGED outside

\* the caller keeps the outcome and hands the analyzer the next text
NextFileRemember ==
    /\ Finished
    /\ Len(code) <= MaxSeenTokens
    /\ earlier' = <<Outcome>>
    /\ \E r \in Related(code), name \in Names : NextCall(r, name)

\* the caller hands the analyzer the remembered text again; the kept outcome stays
NextFile ==
    /\ Finished
    /\ earlier # <<>>
    /\ UNCHANGED earlier
    /\ \E name \in Names : NextCall([code |-> earlier[1].code, at |-> 0], name)

Next ==
    \/ analyze
    \/ SecurityPass
    \/ QualityPass
    \/ PracticesPass
    \/ PerformancePass
    \/ Return
    \/ NextFileRemember
    \/ NextFile

Spec == Init /\ [][Next]_vars

---------------------------------------------------------------------------
(* The performance pass of one call, line by line: the loop of             *)
(* _check_performance_issues with its local list and its flag.             *)

\* the call stands before its fourth pass
InitScan ==
    /\ pc = "performance"
    /\ code \in ScanCodes(MaxTokens)
    /\ filename \in Names
    /\ issues = <<>>
    /\ passes = <<"security", "quality", "practices">>
    /\ result = <<>>
    /\ earlier = <<>>
    /\ added = 0
    /\ ScanIdle
    /\ ServiceIdle

\* issues = []; lines = code.split("\n"); in_loop = False
PerformanceEnter ==
    /\ pc = "performance"
    /\ pc' = "scan"
    /\ issues' = <<>>
    /\ in_loop' = FALSE
    /\ scan_k' = 0
    /\ UNCHANGED <<code, filename, passes, result, earlier, added>>
    /\ UNCHANGED <<hookVars, reviewVars, exc, explainVars>>

\* one turn of `for i, line in enumerate(lines, 1)`
ScanLine ==
    /\ pc = "scan"
    /\ scan_k < Len(Split(code))
    /\ LET line == Split(code)[scan_k + 1] IN
        /\ in_loop' = InLoopAfter(line, in_loop)
        /\ issues' = issues \o PerformanceAt(line, LineNo(scan_k), in_loop')
    /\ scan_k' = scan_k + 1
    /\ UNCHANGED <<pc, code, filename, passes, result, earlier, added>>
    /\ UNCHANGED <<hookVars, reviewVars, exc, explainVars>>

\* return issues
ScanReturn ==
    /\ pc = "scan"
    /\ scan_k >= Len(Split(code))
    /\ pc' = "scanned"
    /\ UNCHANGED <<code, filename, issues, passes, result, earlier, added, scanVars>>
    /\ UNCHANGED <<hookVars, reviewVars, exc, explainVars>>

NextScan ==
    \/ PerformanceEnter
    \/ ScanLine
    \/ ScanReturn

SpecScan == InitScan /\ [][NextScan]_vars

---------------------------------------------------------------------------
(* LLMExplainer.generate_review, step by step.  A step that raises inside  *)
(* the try block hands over to the except clause with the local names      *)
(* bound so far.                                                           *)

\* generate_review(analysis_results) is entered
BeginGenerate ==
    /\ gpc' = "totals"
    /\ locals' = <<>>
    /\ report' = <<>>
    /\ llm_calls' = 0
    /\ UNCHANGED <<GROQ_API_KEY, client>>

\* lines 27-31: a dict without the keys stops line 27, an empty list stops
\* line 30
ExplainTotals ==
    /\ gpc = "totals"
    /\ IF \E n \in 1..Len(analysis_results) : ~HasCounts(analysis_results[n])
       THEN /\ exc' = "KeyError"
            /\ gpc' = "except"
            /\ UNCHANGED locals
       ELSE IF Len(analysis_results) = 0
       THEN /\ exc' = "ZeroDivisionError"
            /\ gpc' = "except"
            /\ locals' = TotalsWithoutScore(analysis_results)
       ELSE /\ gpc' = "decide"
            /\ locals' = Totals(analysis_results)
            /\ UNCHANGED exc
    /\ UNCHANGED <<GROQ_API_KEY, client, report, llm_calls>>
    /\ UNCHANGED <<analyzerVars, scanVars, hookVars, reviewVars>>

\* lines 37-51: without findings the clean report is returned at once
ExplainDecide ==
    /\ gpc = "decide"
    /\ IF /\ locals.total_critical = 0
          /\ locals.total_warnings = 0
          /\ locals.total_info = 0
       THEN /\ report' = <<CleanReport(locals, analysis_results)>>
            /\ gpc' = "returned"
       ELSE /\ gpc' = "client"
            /\ UNCHANGED report
    /\ UNCHANGED <<GROQ_API_KEY, client, locals, llm_calls, exc>>
    /\ UNCHANGED <<analyzerVars, scanVars, hookVars, reviewVars>>

\* line 76: client = self._get_client()
_get_client ==
    /\ gpc = "client"
    /\ IF client = "None"
       THEN IF GROQ_API_KEY = ""
            THEN /\ exc' = "ValueError"
                 /\ gpc' = "except"
                 /\ UNCHANGED client
            ELSE /\ client' = "Groq"
                 /\ gpc' = "call"
                 /\ UNCHANGED exc
       ELSE /\ gpc' = "call"
            /\ UNCHANGED <<client, exc>>
    /\ UNCHANGED <<GROQ_API_KEY, locals, report, llm_calls>>
    /\ UNCHANGED <<analyzerVars, scanVars, hookVars, reviewVars>>

\* lines 77-98: the call to the LLM answers or fails
ExplainCallLLM ==
    /\ gpc = "call"
    /\ llm_calls' = llm_calls + 1
    /\ \E answered \in BOOLEAN :
          IF answered
          THEN /\ gpc' = "build"
               /\ UNCHANGED exc
          ELSE /\ exc' = "APIError"
               /\ gpc' = "except"
    /\ UNCHANGED <<GROQ_API_KEY, client, locals, report>>
    /\ UNCHANGED <<analyzerVars, scanVars, hookVars, reviewVars>>

\* lines 104-147
ExplainBuild ==
    /\ gpc = "build"
    /\ report' = <<FinalComment(locals, analysis_results)>>
    /\ gpc' = "returned"
    /\ UNCHANGED <<GROQ_API_KEY, client, locals, llm_calls, exc>>
    /\ UNCHANGED <<analyzerVars, scanVars, hookVars, reviewVars>>

\* lines 149-163: the fallback string reads overall_score, total_critical
\* and total_warnings; reading a name that was never bound raises
\* UnboundLocalError out of the except clause
ExplainExcept ==
    /\ gpc = "except"
    /\ IF FallbackReads \subseteq DOMAIN locals
       THEN /\ report' = <<FallbackComment(locals)>>
            /\ exc' = ""
            /\ gpc' = "returned"
       ELSE /\ exc' = "UnboundLocalError"
            /\ gpc' = "raised"
            /\ UNCHANGED report
    /\ UNCHANGED <<GROQ_API_KEY, client, locals, llm_calls>>
    /\ UNCHANGED <<analyzerVars, scanVars, hookVars, reviewVars>>

\* the explainer is handed a list
ExplainCall ==
    /\ gpc \in {"idle", "returned", "raised"}
    /\ analysis_results' \in ResultLists(MaxFiles)
    /\ exc' = ""
    /\ BeginGenerate
    /\ UNCHANGED <<rpc, files, review_comment, posted, trace>>
    /\ UNCHANGED <<analyzerVars, scanVars, hookVars>>

\* llm_explainer = LLMExplainer(), in one of the environments
InitExplain ==
    /\ AnalyzerIdle
    /\ ScanIdle
    /\ HookIdle
    /\ ReviewIdle
    /\ exc = ""
    /\ GROQ_API_KEY \in ApiKeys
    /\ ExplainIdle

NextExplain ==
    \/ ExplainCall
    \/ ExplainTotals
    \/ ExplainDecide
    \/ _get_client
    \/ ExplainCallLLM
    \/ ExplainBuild
    \/ ExplainExcept

SpecExplain == InitExplain /\ [][NextExplain]_vars

---------------------------------------------------------------------------
(* run_ai_review, step by step.  It has no await of its own, so no other   *)
(* delivery is handled while it runs.                                      *)

\* run_ai_review(repo_name, pr_number, installation_id) is entered
BeginReview ==
    /\ rpc' = "fetch"
    /\ files' = <<>>
    /\ analysis_results' = <<>>
    /\ review_comment' = <<>>
    /\ posted' = <<>>
    /\ trace' = <<>>

\* a step inside the try block raises e
RaiseInReview(e) ==
    /\ exc' = e
    /\ rpc' = IF ExceptException(e) THEN "except" ELSE "raised"

\* lines 140-146: the GitHub calls fail, or return the Python files of the
\* pull request; without any the review returns
get_pr_files ==
    /\ rpc = "fetch"
    /\ trace' = Append(trace, "get_pr_files")
    /\ \/ /\ RaiseInReview("GithubException")
          /\ UNCHANGED files
       \/ \E listed \in PullRequests(MaxFiles) :
             /\ files' = PythonFiles(listed)
             /\ rpc' = IF PythonFiles(listed) = <<>> THEN "done" ELSE "analyze"
             /\ UNCHANGED exc
    /\ UNCHANGED <<analysis_results, review_comment, posted>>
    /\ UNCHANGED <<analyzerVars, scanVars, hookVars, explainVars>>

\* lines 152-155: one turn of `for file in files`
AnalyzeFile ==
    /\ rpc = "analyze"
    /\ Len(analysis_results) < Len(files)
    /\ trace' = Append(trace, "analyze")
    /\ LET file == files[Len(analysis_results) + 1]
           call == Analyzed(file.code, file.filename)
       IN  IF call.raised # ""
           THEN /\ RaiseInReview(call.raised)
                /\ UNCHANGED analysis_results
           ELSE /\ analysis_results' = Append(analysis_results, call.result)
                /\ UNCHANGED <<rpc, exc>>
    /\ UNCHANGED <<files, review_comment, posted>>
    /\ UNCHANGED <<analyzerVars, scanVars, hookVars, explainVars>>

\* line 159: llm_explainer.generate_review(analysis_results) is called
CallGenerateReview ==
    /\ rpc = "analyze"
    /\ Len(analysis_results) = Len(files)
    /\ trace' = Append(trace, "generate_review")
    /\ rpc' = "generate"
    /\ BeginGenerate
    /\ UNCHANGED <<files, analysis_results, review_comment, posted, exc>>
    /\ UNCHANGED <<analyzerVars, scanVars, hookVars>>

\* line 159: generate_review hands back its string, or its exception
GenerateReviewEnds ==
    /\ rpc = "generate"
    /\ gpc \in {"returned", "raised"}
    /\ IF gpc = "returned"
       THEN /\ review_comment' = report
            /\ rpc' = "post"
       ELSE /\ rpc' = IF ExceptException(exc) THEN "except" ELSE "raised"
            /\ UNCHANGED review_comment
    /\ gpc' = "idle"
    /\ UNCHANGED <<files, analysis_results, posted, trace, exc>>
    /\ UNCHANGED <<GROQ_API_KEY, client, locals, report, llm_calls>>
    /\ UNCHANGED <<analyzerVars, scanVars, hookVars>>

\* lines 163-166: the comment is created, or the GitHub calls fail
post_pr_comment ==
    /\ rpc = "post"
    /\ trace' = Append(trace, "post_pr_comment")
    /\ \/ /\ posted' = Append(posted, review_comment[1])
          /\ rpc' = "done"
          /\ UNCHANGED exc
       \/ /\ RaiseInReview("GithubException")
          /\ UNCHANGED posted
    /\ UNCHANGED <<files, analysis_results, review_comment>>
    /\ UNCHANGED <<analyzerVars, scanVars, hookVars, explainVars>>

\* lines 170-171: except Exception as e: print(...)
ReviewExcept ==
    /\ rpc = "except"
    /\ exc' = ""
    /\ rpc' = "done"
    /\ UNCHANGED <<files, analysis_results, review_comment, posted, trace>>
    /\ UNCHANGED <<analyzerVars, scanVars, hookVars, explainVars>>

---------------------------------------------------------------------------
(* github_webhook, step by step.                                           *)

\* the exception leaves the handler: the framework answers with an error
RaiseInHandler(e) ==
    /\ exc' = e
    /\ hpc' = "raised"
    /\ response' = "error"

Respond(status) ==
    /\ hpc' = "responded"
    /\ response' = status

\* lines 57-58: body = await request.body(); payload = await request.json()
ReadBody ==
    /\ hpc = "received"
    /\ IF request.payload.json
       THEN /\ hpc' = "verify"
            /\ UNCHANGED <<response, exc>>
       ELSE RaiseInHandler("JSONDecodeError")
    /\ UNCHANGED <<WEBHOOK_SECRET, request, reviews>>
    /\ UNCHANGED <<analyzerVars, scanVars, reviewVars, explainVars>>

\* lines 61-63
VerifySignature ==
    /\ hpc = "verify"
    /\ LET verified == verify_webhook_signature(request.payload, request.signature)
       IN  IF verified = "TypeError" THEN RaiseInHandler("TypeError")
           ELSE IF verified = "False"
           THEN /\ Respond("unauthorized")
                /\ UNCHANGED exc
           ELSE /\ hpc' = "dispatch"
                /\ UNCHANGED <<response, exc>>
    /\ UNCHANGED <<WEBHOOK_SECRET, request, reviews>>
    /\ UNCHANGED <<analyzerVars, scanVars, reviewVars, explainVars>>

\* lines 66-91, up to the return or to the call of run_ai_review
Dispatch ==
    /\ hpc = "dispatch"
    /\ IF request.event = "pull_request"
       THEN IF request.payload.action \in ReviewActions
            THEN IF request.payload.complete
                 THEN /\ reviews' = reviews + 1
                      /\ BeginReview
                      /\ hpc' = "reviewing"
                      /\ UNCHANGED <<response, exc>>
                 ELSE /\ RaiseInHandler("KeyError")
                      /\ UNCHANGED <<reviews, reviewVars>>
            ELSE /\ Respond("processed")
                 /\ UNCHANGED <<reviews, reviewVars, exc>>
       ELSE IF request.event = "installation"
       THEN IF request.payload.complete
            THEN /\ Respond("processed")
                 /\ UNCHANGED <<reviews, reviewVars, exc>>
            ELSE /\ RaiseInHandler("KeyError")
                 /\ UNCHANGED <<reviews, reviewVars>>
       ELSE /\ Respond("processed")
            /\ UNCHANGED <<reviews, reviewVars, exc>>
    /\ UNCHANGED <<WEBHOOK_SECRET, request>>
    /\ UNCHANGED <<analyzerVars, scanVars, explainVars>>

\* lines 79 and 91: run_ai_review has ended
ReviewEnds ==
    /\ hpc = "reviewing"
    /\ rpc \in {"done", "raised"}
    /\ IF rpc = "done"
       THEN /\ Respond("processed")
            /\ UNCHANGED exc
       ELSE RaiseInHandler(exc)
    /\ UNCHANGED <<WEBHOOK_SECRET, request, reviews>>
    /\ UNCHANGED <<analyzerVars, scanVars, reviewVars, explainVars>>

\* the next delivery arrives; the explainer keeps its client
NextDelivery ==
    /\ hpc \in {"responded", "raised"}
    /\ request' \in Requests
    /\ hpc' = "received"
    /\ response' = ""
    /\ reviews' = 0
    /\ exc' = ""
    /\ rpc' = "idle"
    /\ files' = <<>>
    /\ analysis_results' = <<>>
    /\ review_comment' = <<>>
    /\ posted' = <<>>
    /\ trace' = <<>>
    /\ gpc' = "idle"
    /\ locals' = <<>>
    /\ report' = <<>>
    /\ llm_calls' = 0
    /\ UNCHANGED <<WEBHOOK_SECRET, GROQ_API_KEY, client>>
    /\ UNCHANGED <<analyzerVars, scanVars>>

\* the service is up, in one of the environments, with a first delivery
InitReview ==
    /\ AnalyzerIdle
    /\ ScanIdle
    /\ WEBHOOK_SECRET \in Secrets
    /\ request \in Requests
    /\ hpc = "received"
    /\ response = ""
    /\ reviews = 0
    /\ ReviewIdle
    /\ exc = ""
    /\ GROQ_API_KEY \in ApiKeys
    /\ ExplainIdle

NextReview ==
    \/ ReadBody
    \/ VerifySignature
    \/ Dispatch
    \/ ReviewEnds
    \/ NextDelivery
    \/ get_pr_files
    \/ AnalyzeFile
    \/ CallGenerateReview
    \/ GenerateReviewEnds
    \/ post_pr_comment
    \/ ReviewExcept
    \/ ExplainTotals
    \/ ExplainDecide
    \/ _get_client
    \/ ExplainCallLLM
    \/ ExplainBuild
    \/ ExplainExcept

SpecReview == InitReview /\ [][NextReview]_vars

---------------------------------------------------------------------------
(* Notions the properties share.                                           *)

Returned == pc = "returned"

Has(found, x) == \E i \in 1..Len(found) : found[i] = x

IsDocstringIssue(x) == x.issue_type = "Missing Docstring"

TextIssues(found) == SelectSeq(found, LAMBDA x : ~IsDocstringIssue(x))

DocstringIssues(found) == SelectSeq(found, IsDocstringIssue)

\* what the four text-pattern scans find, in the order analyze runs them
TextPatternFindings(c) ==
       _check_security_issues(c)
    \o QualityScan(Split(c), 0)
    \o _check_python_best_practices(c)
    \o _check_performance_issues(c)

RawTenths(r) == 100 - 20 * Len(r.critical) - 10 * Len(r.warnings) - 3 * Len(r.info)

---------------------------------------------------------------------------
(* C1: analyze is total.  Every call ends by returning an AnalysisResult,  *)
(* never by an exception; when a pass fails inside, the result still       *)
(* holds what the other passes found.                                      *)
C1_AnalyzeTotal ==
    Finished =>
        /\ Returned
        /\ Len(result) = 1
        /\ _check_code_quality(code).raised # "" =>
               result[1].issues = _check_security_issues(code)
                                  \o _check_python_best_practices(code)
                                  \o _check_performance_issues(code)

---------------------------------------------------------------------------
(* C2: the returned score is max(0, 100 - 20*C - 10*W - 3*I) tenths, with  *)
(* C, W, I the lengths of the critical, warnings and info sequences of     *)
(* the same result.                                                        *)
C2_ScoreFormula ==
    Returned =>
        result[1].quality_score =
            (IF RawTenths(result[1]) < 0 THEN 0 ELSE RawTenths(result[1]))

C2_Witness ==
    /\ Returned
    /\ Len(result[1].critical) > 0
    /\ Len(result[1].warnings) > 0
    /\ Len(result[1].info) > 1
    /\ result[1].quality_score > 0

---------------------------------------------------------------------------
(* C3: the score of every result lies in [0.0, 10.0], however many         *)
(* findings there are.                                                     *)
C3_ScoreRange ==
    Returned => (result[1].quality_score >= 0 /\ result[1].quality_score <= 100)

\* the deductions exceed the base score
C3_Witness ==
    /\ Returned
    /\ Deduct(result[1].issues, BaseScore) < 0
    /\ result[1].quality_score = 0

---------------------------------------------------------------------------
(* C4: total_count is the sum of the lengths of the three severity         *)
(* sequences; a result without findings has score 10.0 and three empty     *)
(* sequences; the empty text has no findings and score 10.0.               *)
C4_TotalCount ==
    Returned =>
        LET r == result[1] IN
        /\ r.total_issues = Len(r.critical) + Len(r.warnings) + Len(r.info)
        /\ r.total_issues = 0 =>
              /\ r.quality_score = 100
              /\ r.critical = <<>> /\ r.warnings = <<>> /\ r.info = <<>>
        /\ code = <<>> => (r.total_issues = 0 /\ r.quality_score = 100)

C4_Witness ==
    /\ Returned
    /\ code = <<>>
    /\ result[1].total_issues = 0
    /\ result[1].quality_score = 100

---------------------------------------------------------------------------
(* Pass order, by the kind of finding.                                     *)

SecurityTypes == {"Hardcoded Password", "SQL Injection Risk", "Exposed API Key",
                  "Dangerous eval() Usage"}

QualityLineTypes == {"Long Line", "Print Statement Found", "Unresolved TODO"}

PracticeTypes == {"Bare Except Clause", "Mutable Default Argument",
                  "Incorrect None Comparison"}

PerformanceTypes == {"Database Query in Loop", "String Concat in Loop"}

\* security, quality, best-practice, performance, then Missing Docstring
RankDocstringLast(x) ==
    IF x.issue_type \in SecurityTypes THEN 1
    ELSE IF x.issue_type \in QualityLineTypes THEN 2
    ELSE IF x.issue_type \in PracticeTypes THEN 3
    ELSE IF x.issue_type \in PerformanceTypes THEN 4
    ELSE 5

\* security, quality line rules, Missing Docstring, best-practice, performance
RankDocstringInQuality(x) ==
    IF x.issue_type \in SecurityTypes THEN 1
    ELSE IF x.issue_type \in QualityLineTypes THEN 2
    ELSE IF IsDocstringIssue(x) THEN 3
    ELSE IF x.issue_type \in PracticeTypes THEN 4
    ELSE 5

PassOrder == <<"security", "quality", "practices", "performance">>

IsPrefix(a, b) == Len(a) <= Len(b) /\ SubSeq(b, 1, Len(a)) = a

\* a text-pattern pass reports in line order
LineOrdered(found) ==
    \A i, j \in 1..Len(found) :
        (i < j /\ found[i].issue_type \notin {"Missing Docstring"}
               /\ RankDocstringInQuality(found[i]) = RankDocstringInQuality(found[j]))
            => found[i].line_number <= found[j].line_number

Partitioned(r) ==
    /\ r.critical = SelectSeq(r.issues, LAMBDA x : x.severity = "CRITICAL")
    /\ r.warnings = SelectSeq(r.issues, LAMBDA x : x.severity = "WARNING")
    /\ r.info     = SelectSeq(r.issues, LAMBDA x : x.severity = "INFO")

---------------------------------------------------------------------------
---------------------------------------------------------------------------
(* C7: when the parse of the text fails, analyze does not raise, reports   *)
(* no Missing Docstring finding and reports the text-pattern findings of   *)
(* the text, in their order.                                               *)
C7_ParseFailureSilent ==
    (Finished /\ ast_parse(code).error # "") =>
        /\ Returned
        /\ Len(result) = 1
        /\ DocstringIssues(result[1].issues) = <<>>
        /\ result[1].issues = TextPatternFindings(code)

---------------------------------------------------------------------------
(* C8: on a successful parse there is exactly one Missing Docstring        *)
(* finding, at its definition line, for every function definition of any   *)
(* kind and depth whose first statement is not a string-literal            *)
(* expression, and none for any other line.                                *)
IsAnyFunction(node) == node.type \in {"FunctionDef", "AsyncFunctionDef"}

StartsWithStringLiteral(node) ==
    /\ node.body # <<>>
    /\ node.body[1].type = "Expr"
    /\ node.body[1].value = "Constant"
    /\ node.body[1].const = "str"

UndocumentedLines(c) ==
    LET nodes == ast_walk(ast_parse(c)) IN
    {nodes[i].lineno : i \in {k \in 1..Len(nodes) :
        IsAnyFunction(nodes[k]) /\ ~StartsWithStringLiteral(nodes[k])}}

C8_DocstringRule ==
    (Returned /\ ast_parse(code).error = "") =>
        LET found == DocstringIssues(result[1].issues) IN
        /\ {found[i].line_number : i \in 1..Len(found)} = UndocumentedLines(code)
        /\ Len(found) = Cardinality(UndocumentedLines(code))
        /\ \A i \in 1..Len(found) : found[i].severity = "INFO"

---------------------------------------------------------------------------
(* C10: every finding of a text-pattern pass carries the 1-based index, in *)
(* the text split on newlines, of a line that satisfies the trigger of its *)
(* rule; the index is at least 1 and at most the number of lines.          *)
Trigger(type, line) ==
    CASE type = "Hardcoded Password"        -> RePassword(line)
      [] type = "SQL Injection Risk"        -> ReSqlFormat(line)
      [] type = "Exposed API Key"           -> ReApiKey(line)
      [] type = "Dangerous eval() Usage"    -> ReEval(line)
      [] type = "Long Line"                 -> Len(line) > MaxLineLength
      [] type = "Print Statement Found"     -> RePrint(line)
      [] type = "Unresolved TODO"           -> ReTodo(line)
      [] type = "Bare Except Clause"        -> ReBareExcept(line)
      [] type = "Mutable Default Argument"  -> ReMutableDefault(line)
      [] type = "Incorrect None Comparison" -> ReEqNone(line)
      [] type = "Database Query in Loop"    -> ReQuery(line)
      [] type = "String Concat in Loop"     -> ReConcat(line)
      [] OTHER                              -> FALSE

C10_LineNumbers ==
    Returned =>
        LET found == TextIssues(result[1].issues)
            lines == Split(code)
        IN  \A i \in 1..Len(found) :
               /\ found[i].line_number >= 1
               /\ found[i].line_number <= Len(lines)
               /\ Trigger(found[i].issue_type, lines[found[i].line_number])

\* a finding on the last of three lines, the lines before it triggering nothing
C10_Witness ==
    /\ Returned
    /\ Len(Split(code)) = 3
    /\ TextIssues(result[1].issues) # <<>>
    /\ \A i \in 1..Len(TextIssues(result[1].issues)) :
          TextIssues(result[1].issues)[i].line_number = 3

---------------------------------------------------------------------------
(* Two calls: the remembered one on a text T, the current one on T with    *)
(* one line added as line number `added`.                                  *)

BothReturned ==
    /\ Returned
    /\ earlier # <<>>
    /\ earlier[1].pc = "returned"

\* the added line triggers a rule: a text-pattern finding stands on it
AddedLineTriggers ==
    \E i \in 1..Len(result[1].issues) :
        /\ ~IsDocstringIssue(result[1].issues[i])
        /\ result[1].issues[i].line_number = added

\* a finding of T, at the number its line has in the longer text
Shifted(x) ==
    [x EXCEPT !.line_number = IF @ < added THEN @ ELSE @ + 1]

OneLineAdded == BothReturned /\ added > 0 /\ AddedLineTriggers

---------------------------------------------------------------------------
---------------------------------------------------------------------------
(* C9: a call on the text and name of a remembered call ends as that call  *)
(* did, with an identical result, whatever calls came before or between;   *)
(* a call on the same text under another name finds the same findings.     *)
C9_Deterministic ==
    (Finished /\ earlier # <<>> /\ earlier[1].code = code) =>
        /\ earlier[1].pc = pc
        /\ earlier[1].filename = filename => earlier[1].result = result
        /\ Returned => /\ earlier[1].result[1].issues = result[1].issues
                       /\ earlier[1].result[1].quality_score = result[1].quality_score

\* the same text and name analyzed again, with findings to compare
C9_Witness ==
    /\ Returned
    /\ earlier # <<>>
    /\ earlier[1].code = code
    /\ earlier[1].filename = filename
    /\ added = 0
    /\ Len(result[1].critical) > 0
    /\ Len(result[1].info) > 0

---------------------------------------------------------------------------
(* C11 *)

ScanLinesOf == Split(code)

\* a loop header stands on line i or above it
HeaderUpTo(i) == \E j \in 1..i : ReLoopHeader(ScanLinesOf[j])

QueryInLoop(i) == CodeIssue("WARNING", "Database Query in Loop", i)
ConcatInLoop(i) == CodeIssue("INFO", "String Concat in Loop", i)

\* C11: while the performance pass goes through the lines its flag is true
\* exactly when a loop header is among the lines gone through, so it starts
\* false, turns true at the first header and stays true; and the pass
\* returns a query-in-loop (string-concat-in-loop) finding for line i
\* exactly when line i matches the data-access (string-append) pattern and a
\* loop header stands on line i or above, and nothing else.
C11_InLoopFlag ==
    /\ pc \in {"scan", "scanned"} => (in_loop <=> HeaderUpTo(scan_k))
    /\ pc = "scanned" =>
          /\ \A i \in 1..Len(ScanLinesOf) :
                /\ Has(issues, QueryInLoop(i))
                      <=> (ReQuery(ScanLinesOf[i]) /\ HeaderUpTo(i))
                /\ Has(issues, ConcatInLoop(i))
                      <=> (ReConcat(ScanLinesOf[i]) /\ HeaderUpTo(i))
          /\ \A n \in 1..Len(issues) :
                \E i \in 1..Len(ScanLinesOf) :
                    issues[n] \in {QueryInLoop(i), ConcatInLoop(i)}
          /\ issues = _check_performance_issues(code)

\* a data access above the first loop header goes unreported, the header
\* line itself is reported for both patterns, and so is an append on a line
\* below it
C11_Witness ==
    /\ pc = "scanned"
    /\ \E i, j, k \in 1..Len(ScanLinesOf) :
          /\ i < j /\ j < k
          /\ ReQuery(ScanLinesOf[i]) /\ ~HeaderUpTo(i)
          /\ ~Has(issues, QueryInLoop(i))
          /\ ReLoopHeader(ScanLinesOf[j])
          /\ Has(issues, QueryInLoop(j)) /\ Has(issues, ConcatInLoop(j))
          /\ ~ReLoopHeader(ScanLinesOf[k])
          /\ Has(issues, ConcatInLoop(k))

---------------------------------------------------------------------------
(* Notions the properties of the service share.                            *)

\* the header of the delivery is "sha256=" + HMAC-SHA256(WEBHOOK_SECRET, body)
Genuine ==
    request.signature = Sha256Header(HmacSha256(WEBHOOK_SECRET, request.payload))

\* the handler is through with the delivery
Handled == hpc \in {"responded", "raised"}

\* the delivery asks for a review
ForReview ==
    /\ request.event = "pull_request"
    /\ request.payload.action \in {"opened", "synchronize"}

\* the delivery passed the signature check: the handler went on to line 65
Accepted ==
    /\ request.payload.json
    /\ verify_webhook_signature(request.payload, request.signature) = "True"

CallsOf(name) == Len(SelectSeq(trace, LAMBDA t : t = name))

\* the calls of a review that goes through, for the files fetched
FullTrace ==
       <<"get_pr_files">>
    \o [n \in 1..Len(files) |-> "analyze"]
    \o <<"generate_review", "post_pr_comment">>

---------------------------------------------------------------------------
(* C12 *)

\* C12: a delivery whose signature header is missing or differs from
\* "sha256=" + HMAC-SHA256(WEBHOOK_SECRET, body) starts no review and, when
\* the handler answers it, is answered "unauthorized", whatever the secret.
C12_UnsignedRejected ==
    ~Genuine =>
        /\ reviews = 0
        /\ hpc = "responded" => response = "unauthorized"

\* the same with a secret configured
C12_UnsignedRejectedUnderSecret ==
    (WEBHOOK_SECRET # "" /\ ~Genuine) =>
        /\ reviews = 0
        /\ hpc = "responded" => response = "unauthorized"

---------------------------------------------------------------------------
(* C13 *)

---------------------------------------------------------------------------
(* C14 *)

\* C14: the calls of one run_ai_review are a prefix of: get_pr_files, one
\* analyze per fetched file, generate_review, post_pr_comment; a comment is
\* posted at most once, only at the end of that whole sequence and it is
\* the string generate_review returned; so after an empty fetch or a step
\* that raised nothing is posted; and no exception leaves run_ai_review.
C14_ReviewOrder ==
    /\ IsPrefix(trace, FullTrace)
    /\ CallsOf("post_pr_comment") <= 1
    /\ Len(posted) <= 1
    /\ posted # <<>> =>
          /\ trace = FullTrace
          /\ files # <<>>
          /\ Len(analysis_results) = Len(files)
          /\ review_comment # <<>>
          /\ posted = review_comment
    /\ CallsOf("post_pr_comment") > 0 => review_comment # <<>>
    /\ CallsOf("generate_review") > 0 => Len(analysis_results) = Len(files)
    /\ rpc # "raised"
    /\ hpc = "raised" => reviews = 0

\* a review of two files posted its comment; and the handler was answered
C14_Witness ==
    /\ rpc = "done"
    /\ Len(files) = 2
    /\ trace = FullTrace
    /\ Len(posted) = 1
    /\ response = "processed"

\* a review ended without a comment after analyze raised on the second file
C14_WitnessRaised ==
    /\ rpc = "done"
    /\ Len(files) = 2
    /\ trace = <<"get_pr_files", "analyze", "analyze">>
    /\ posted = <<>>
    /\ response = "processed"

---------------------------------------------------------------------------
(* C15 *)

\* C15: generate_review never raises and always returns a report, for every
\* list it is handed and every failure inside it.
C15_AlwaysReports ==
    /\ gpc # "raised"
    /\ gpc = "returned" => report # <<>>

\* what does hold: the call returns unless the totals could not be computed;
\* a failure after the totals gives the fallback with the score and the two
\* counts; without findings the clean report comes back and the LLM was not
\* called
C15_ReportsAfterTotals ==
    /\ gpc = "raised" =>
          (analysis_results = <<>>
             \/ \E n \in 1..Len(analysis_results) : ~HasCounts(analysis_results[n]))
    /\ gpc = "returned" =>
          /\ report # <<>>
          /\ report[1].overall_score = Totals(analysis_results).overall_score
          /\ report[1].kind = "fallback" =>
                report[1].counts = <<Totals(analysis_results).total_critical,
                                     Totals(analysis_results).total_warnings>>
          /\ report[1].kind = "clean" <=>
                (/\ Totals(analysis_results).total_critical = 0
                 /\ Totals(analysis_results).total_warnings = 0
                 /\ Totals(analysis_results).total_info = 0)
          /\ report[1].kind = "clean" => llm_calls = 0

====
